---- MODULE Spec2Model ----
(***************************************************************************)
(* Model of the practice evaluation engine of dx-scanner:                  *)
(* Scanner.detectPractices, Scanner.detectPracticesForComponent and        *)
(* Scanner.report (src/src/scanner/Scanner.ts).                            *)
(*                                                                         *)
(* A run starts where detectPractices has mapped every detected component  *)
(* to its detectPracticesForComponent promise: every pipeline is suspended *)
(* at its first await (configProvider.init()).  Each action is one         *)
(* resumption of a pipeline: the code that runs between two awaits.        *)
(* Pipelines of different components interleave at their awaits.           *)
(***************************************************************************)
EXTENDS Naturals, Sequences, FiniteSets

\* ------------------------------------------------------------------------
\* Bounds of the model
\* ------------------------------------------------------------------------

\* Largest catalog (practices are numbered in registration order).
NumPractices == 3

\* Largest number of detected project components.
NumComponents == 2

\* Largest number of (practice, component) pairs in one run.
MaxPairs == 4

\* Largest number of settings of a run that differ from the plain run, in
\* which no practice depends on another, every practice is applicable and
\* enabled, nothing is reportOnlyOnce and no collaborator throws.
MaxSettings == 3

\* Largest number of characters of the .gitignore file a practice is evaluated
\* on; the name of a pattern counts as one character.
MaxChars == 5

\* ------------------------------------------------------------------------
\* Model values
\* ------------------------------------------------------------------------

practicing == "practicing"
notPracticing == "notPracticing"
unknown == "unknown"

\* PracticeEvaluationResult: what evaluate can return.
PracticeEvaluationResult == {practicing, notPracticing, unknown}

\* PracticeImpact: the impact levels, lowest first.
PracticeImpact == <<"low", "medium", "high">>

\* The impact a practice declares unless a setting says otherwise.
DefaultImpact == "high"

\* What getOverriddenPractice(id).impact is when no override is defined.
undefined == "undefined"

VARIABLES
  practices,                  \* this.practices: ids 1..n in registration order
  projectComponents,          \* the detected components 1..m, in order
  dependsOn,                  \* metadata: dependsOn[p].practicing / .notPracticing
  reportOnlyOnce,             \* metadata: reportOnlyOnce[p]
  impact,                     \* metadata: impact[p]
  impactOverride,             \* override store: impactOverride[c][p], or undefined
  isApplicable,               \* isApplicable[c][p]: "true", "false" or "throws"
  enabled,                    \* override store: enabled[c][p]
  initThrows,                 \* initThrows[c]: configProvider.init() rejects
  pc,                         \* pc[c]: the await the pipeline of c is suspended at
  fault,                      \* fault[c]: why the pipeline of c rejected
  orderedApplicablePractices, \* per component, the resolved order
  practicesOff,               \* per component, filteredPractices.practicesOff
  idx,                        \* per component, position of the practice in evaluate
  practicesWithContext,       \* per component, the accumulated result list
  evaluateCalls,              \* evaluateCalls[c][p]: invocations of p.evaluate
  evaluateOutcome,            \* evaluateOutcome[c][p]: what evaluate did last
  settled,                    \* the components in the order their pipelines settled
  data,                       \* data[p]: practice.data.details of the instance of p:
                              \* <<>> when undefined, else <<c>>, the details of c
  scanPc,                     \* where scan() is
  reported,                   \* the list handed to reporter.report
  reportCalls,                \* invocations of reporter.report
  fileInspector,              \* ctx.root.fileInspector is present
  gitignore,                  \* the file .gitignore: readable or not, its content
  evaluatePc,                 \* where JsGitignoreCorrectlySetPractice.evaluate is
  settledWith,                \* what it settled with: a result, or "threw"
  readFileCalls               \* invocations of fileInspector.readFile

catalogVars == <<practices, projectComponents, dependsOn, reportOnlyOnce,
                 impact, impactOverride, isApplicable, enabled, initThrows>>
pipelineVars == <<pc, fault, orderedApplicablePractices, practicesOff, idx,
                  practicesWithContext, evaluateCalls, evaluateOutcome, settled>>
practiceVars == <<data>>
scanVars == <<scanPc, reported, reportCalls>>
contextVars == <<fileInspector, gitignore, evaluatePc, settledWith, readFileCalls>>
vars == <<catalogVars, pipelineVars, practiceVars, scanVars, contextVars>>

\* ------------------------------------------------------------------------
\* Helpers on sequences
\* ------------------------------------------------------------------------

Range(s) == {s[i] : i \in 1..Len(s)}

\* The ids of set S as a sequence in registration (numeric) order.
RECURSIVE InRegistrationOrder(_)
InRegistrationOrder(S) ==
  IF S = {} THEN <<>>
  ELSE LET least == CHOOSE p \in S : \A q \in S : p <= q
       IN <<least>> \o InRegistrationOrder(S \ {least})

\* ------------------------------------------------------------------------
\* The run's inputs: catalog, override store, collaborators
\* ------------------------------------------------------------------------

\* One setting of a run that differs from the plain run.
\*   dependsOn      practice p names another practice q under dependsOn[res]
\*   reportOnlyOnce practice p is reportOnlyOnce
\*   notApplicable  p.isApplicable is false for component c
\*   throws         p.isApplicable throws for component c
\*   off            the override store of c disables p
\*   initThrows     configProvider.init() of c rejects
\*   impact         practice p declares the impact PracticeImpact[q]
\*   impactOverride the override store of c gives p the impact PracticeImpact[q]
Settings(n, m) ==
       {s \in {[kind |-> "dependsOn", c |-> 0, p |-> p, q |-> q, res |-> r] :
                 p \in 1..n, q \in 1..n, r \in {practicing, notPracticing}} :
          s.p # s.q}
  \cup {[kind |-> "reportOnlyOnce", c |-> 0, p |-> p, q |-> 0, res |-> unknown] :
          p \in 1..n}
  \cup {[kind |-> k, c |-> c, p |-> p, q |-> 0, res |-> unknown] :
          k \in {"notApplicable", "throws", "off"}, c \in 1..m, p \in 1..n}
  \cup {[kind |-> "initThrows", c |-> c, p |-> 0, q |-> 0, res |-> unknown] :
          c \in 1..m}

\* A number per setting, different for different settings.
SettingKey(s) ==
  LET kindNo == CASE s.kind = "dependsOn" -> 0
                  [] s.kind = "reportOnlyOnce" -> 1
                  [] s.kind = "notApplicable" -> 2
                  [] s.kind = "throws" -> 3
                  [] s.kind = "off" -> 4
                  [] s.kind = "initThrows" -> 5
                  [] s.kind = "impact" -> 6
                  [] s.kind = "impactOverride" -> 7
      base == NumPractices + NumComponents + 1
  IN 2 * (((kindNo * base + s.c) * base + s.p) * base + s.q)
       + (IF s.res = practicing THEN 1 ELSE 0)

\* The sets of at most k of the given settings (each built once, by adding
\* its settings in the order of their keys).
RECURSIVE SettingsUpTo(_, _)
SettingsUpTo(all, k) ==
  IF k = 0 THEN {{}}
  ELSE LET smaller == SettingsUpTo(all, k - 1)
       IN smaller \cup
            {T \cup {s} : <<T, s>> \in
               {ts \in smaller \X all :
                  \A t \in ts[1] : SettingKey(t) < SettingKey(ts[2])}}

Has(S, k, c, p, q, r) == [kind |-> k, c |-> c, p |-> p, q |-> q, res |-> r] \in S

\* The settings of the impacts: a declared impact other than the default, an
\* override of any level.
ImpactSettings(n, m) ==
       {s \in {[kind |-> "impact", c |-> 0, p |-> p, q |-> v, res |-> unknown] :
                 p \in 1..n, v \in 1..Len(PracticeImpact)} :
          PracticeImpact[s.q] # DefaultImpact}
  \cup {[kind |-> "impactOverride", c |-> c, p |-> p, q |-> v, res |-> unknown] :
          c \in 1..m, p \in 1..n, v \in 1..Len(PracticeImpact)}

\* The impact level the settings S give under kind k to p (for component c):
\* the lowest one they name, none when they name none.
ImpactIn(S, k, c, p, none) ==
  LET named == {v \in 1..Len(PracticeImpact) : Has(S, k, c, p, v, unknown)}
  IN IF named = {} THEN none
     ELSE PracticeImpact[CHOOSE v \in named : \A w \in named : v <= w]

\* ------------------------------------------------------------------------
\* ScannerUtils (its source is not part of the files at hand)
\* ------------------------------------------------------------------------

\* The ids practice p names in its dependency constraints.
DependencyIds(p) == dependsOn[p].practicing \cup dependsOn[p].notPracticing

\* ScannerUtils.filterPractices: the applicable practices, split by the
\* override store into the enabled ones and the ones turned off, each in
\* registration order.  It rejects when an isApplicable call throws.
filterPractices(c) ==
  [threw |-> \E p \in practices : isApplicable[c][p] = "throws",
   customApplicablePractices |->
     InRegistrationOrder({p \in practices : isApplicable[c][p] = "true" /\ enabled[c][p]}),
   practicesOff |->
     InRegistrationOrder({p \in practices : isApplicable[c][p] = "true" /\ ~enabled[c][p]})]

\* ScannerUtils.sortPractices: a linear order of the given practices in which
\* every practice comes after the practices it names in dependsOn; among the
\* practices that may come next, the one registered first.  Ids outside the
\* given set put no constraint on the order.  A cycle makes it throw.
RECURSIVE TopologicalOrder(_, _)
TopologicalOrder(remaining, placed) ==
  IF remaining = {} THEN [threw |-> FALSE, order |-> placed]
  ELSE LET ready == {p \in remaining : DependencyIds(p) \cap remaining = {}}
       IN IF ready = {} THEN [threw |-> TRUE, order |-> <<>>]
          ELSE LET next == CHOOSE p \in ready : \A q \in ready : p <= q
               IN TopologicalOrder(remaining \ {next}, Append(placed, next))

sortPractices(applicable) == TopologicalOrder(Range(applicable), <<>>)

\* ScannerUtils.isFulfilled: every id under dependsOn.practicing has a record
\* with evaluation practicing among the records produced so far, and every id
\* under dependsOn.notPracticing has one with evaluation notPracticing.
isFulfilled(p, evaluated) ==
  /\ \A d \in dependsOn[p].practicing :
       \E i \in 1..Len(evaluated) :
         evaluated[i].practice = d /\ evaluated[i].evaluation = practicing
  /\ \A d \in dependsOn[p].notPracticing :
       \E i \in 1..Len(evaluated) :
         evaluated[i].practice = d /\ evaluated[i].evaluation = notPracticing

\* ------------------------------------------------------------------------
\* Scanner.detectPracticesForComponent
\* ------------------------------------------------------------------------

\* As EvaluatedRecord, but the result of evaluate is dropped.
EvaluatedRecord_ResultDropped(c, p, outcome) ==
  [practice |-> p, componentContext |-> c, evaluation |-> unknown, isOn |-> TRUE]

\* Lines 193-199: the record of an evaluated practice.  A thrown evaluate is
\* caught and recorded as unknown (lines 186-191).
EvaluatedRecord(c, p, outcome) ==
  [practice |-> p,
   componentContext |-> c,
   evaluation |-> IF outcome = "threw" THEN unknown ELSE outcome,
   isOn |-> TRUE]

\* As OffRecord, but the record is flagged as switched on.
OffRecord_FlaggedOn(c, p) ==
  [practice |-> p, componentContext |-> c, evaluation |-> unknown, isOn |-> TRUE]

\* Lines 208-214: the record of a practice that is turned off.
OffRecord(c, p) ==
  [practice |-> p, componentContext |-> c, evaluation |-> unknown, isOn |-> FALSE]

\* As AddPracticesOff, but over every practice of the catalog that the
\* override store turns off, applicable or not.
AddPracticesOff_NotFiltered(c, records, off) ==
  records \o [k \in 1..Len(InRegistrationOrder({p \in practices : ~enabled[c][p]})) |->
               OffRecord(c, InRegistrationOrder({p \in practices : ~enabled[c][p]})[k])]

\* As AddPracticesOff, but every record is pushed twice.
RECURSIVE AddPracticesOff_PushedTwice(_, _, _)
AddPracticesOff_PushedTwice(c, records, off) ==
  IF off = <<>> THEN records
  ELSE AddPracticesOff_PushedTwice(
         c, records \o <<OffRecord(c, Head(off)), OffRecord(c, Head(off))>>, Tail(off))

\* Lines 207-217: the second loop appends one record per turned-off practice.
RECURSIVE AddPracticesOff(_, _, _)
AddPracticesOff(c, records, off) ==
  IF off = <<>> THEN records
  ELSE AddPracticesOff(c, Append(records, OffRecord(c, Head(off))), Tail(off))

\* As NextEvaluated, without the test of line 184: no practice is passed over.
NextEvaluated_NoSkip(ordered, i, records) == i

\* As NextEvaluated, with the test of line 184 inverted.
NextEvaluated_Inverted(ordered, i, records) ==
  LET unfulfilled == {j \in i..Len(ordered) : ~isFulfilled(ordered[j], records)}
  IN IF unfulfilled = {} THEN Len(ordered) + 1
     ELSE CHOOSE j \in unfulfilled : \A k \in unfulfilled : j <= k

\* Lines 179-184: from position i of the resolved order, the position of the
\* next practice that is evaluated: the practices that are not fulfilled by
\* the records so far are passed over.  Len(ordered) + 1 when the loop ends.
NextEvaluated(ordered, i, records) ==
  LET fulfilled == {j \in i..Len(ordered) : isFulfilled(ordered[j], records)}
  IN IF fulfilled = {} THEN Len(ordered) + 1
     ELSE CHOOSE j \in fulfilled : \A k \in fulfilled : j <= k

\* As RunLoop, but the evaluate of the practice after the next one is invoked
\* along with it instead of after it.
RunLoop_NotAwaited(c, ordered, off, i, records) ==
  LET j == NextEvaluated(ordered, i, records)
  IN IF j <= Len(ordered)
     THEN /\ pc' = [pc EXCEPT ![c] = "evaluate"]
          /\ idx' = [idx EXCEPT ![c] = j]
          /\ evaluateCalls' =
               [evaluateCalls EXCEPT ![c] =
                  [p \in DOMAIN @ |->
                     IF \E k \in j..(j + 1) : k <= Len(ordered) /\ ordered[k] = p
                     THEN @[p] + 1 ELSE @[p]]]
          /\ practicesWithContext' = [practicesWithContext EXCEPT ![c] = records]
          /\ settled' = settled
     ELSE /\ pc' = [pc EXCEPT ![c] = "returned"]
          /\ idx' = [idx EXCEPT ![c] = j]
          /\ evaluateCalls' = evaluateCalls
          /\ settled' = Append(settled, c)
          /\ practicesWithContext' =
               [practicesWithContext EXCEPT ![c] = AddPracticesOff(c, records, off)]

\* The pipeline of c runs on from position i of the first loop with the given
\* records, until it awaits the next evaluate or returns its result list.
RunLoop(c, ordered, off, i, records) ==
  LET j == NextEvaluated(ordered, i, records)
  IN IF j <= Len(ordered)
     THEN /\ pc' = [pc EXCEPT ![c] = "evaluate"]
          /\ idx' = [idx EXCEPT ![c] = j]
          /\ evaluateCalls' = [evaluateCalls EXCEPT ![c][ordered[j]] = @ + 1]
          /\ practicesWithContext' = [practicesWithContext EXCEPT ![c] = records]
          /\ settled' = settled
     ELSE /\ pc' = [pc EXCEPT ![c] = "returned"]
          /\ idx' = [idx EXCEPT ![c] = j]
          /\ evaluateCalls' = evaluateCalls
          /\ settled' = Append(settled, c)
          /\ practicesWithContext' =
               [practicesWithContext EXCEPT ![c] = AddPracticesOff(c, records, off)]

\* The promise of detectPracticesForComponent(c) rejects.
Rejects(c, why) ==
  /\ pc' = [pc EXCEPT ![c] = "rejected"]
  /\ fault' = [fault EXCEPT ![c] = why]
  /\ settled' = Append(settled, c)
  /\ UNCHANGED <<orderedApplicablePractices, practicesOff, idx,
                 practicesWithContext, evaluateCalls, evaluateOutcome>>

\* Line 171: await componentContext.configProvider.init() settles.
ConfigInit(c) ==
  /\ pc[c] = "init"
  /\ IF initThrows[c]
     THEN Rejects(c, "init")
     ELSE /\ pc' = [pc EXCEPT ![c] = "filter"]
          /\ UNCHANGED <<fault, orderedApplicablePractices, practicesOff, idx,
                         practicesWithContext, evaluateCalls, evaluateOutcome,
                         settled>>
  /\ UNCHANGED <<contextVars, catalogVars, practiceVars, scanVars>>

\* Lines 172-187: await ScannerUtils.filterPractices settles; the practices
\* are sorted and the first loop runs up to its first evaluate.
FilterPractices(c) ==
  /\ pc[c] = "filter"
  /\ LET filteredPractices == filterPractices(c)
         sorted == sortPractices(filteredPractices.customApplicablePractices)
     IN IF filteredPractices.threw THEN Rejects(c, "isApplicable")
        ELSE IF sorted.threw THEN Rejects(c, "cycle")
        ELSE /\ orderedApplicablePractices' =
                  [orderedApplicablePractices EXCEPT ![c] = sorted.order]
             /\ practicesOff' =
                  [practicesOff EXCEPT ![c] = filteredPractices.practicesOff]
             /\ RunLoop(c, sorted.order, filteredPractices.practicesOff, 1, <<>>)
             /\ UNCHANGED <<fault, evaluateOutcome>>
  /\ UNCHANGED <<contextVars, catalogVars, practiceVars, scanVars>>

\* What evaluate of p for c leaves in practice.data.details: the details of
\* c when it returns notPracticing, what was there otherwise.
setData(c, p, outcome) ==
  IF outcome = notPracticing THEN [data EXCEPT ![p] = <<c>>] ELSE data

\* Lines 187-202: the awaited evaluate settles with the given outcome; its
\* record is pushed and the loop runs on.
EvaluateSettles(c, outcome) ==
  LET p == orderedApplicablePractices[c][idx[c]]
  IN /\ evaluateOutcome' = [evaluateOutcome EXCEPT ![c][p] = outcome]
     /\ data' = setData(c, p, outcome)
     /\ RunLoop(c, orderedApplicablePractices[c], practicesOff[c], idx[c] + 1,
                Append(practicesWithContext[c], EvaluatedRecord(c, p, outcome)))
     /\ UNCHANGED <<fault, orderedApplicablePractices, practicesOff>>
     /\ UNCHANGED <<contextVars, catalogVars, scanVars>>

\* Line 187: evaluate returns a result.
EvaluateReturns(c) ==
  /\ pc[c] = "evaluate"
  /\ \E result \in PracticeEvaluationResult : EvaluateSettles(c, result)

\* As EvaluateThrows, without the catch: the throw leaves the pipeline.
EvaluateThrows_Uncaught(c) ==
  /\ pc[c] = "evaluate"
  /\ pc' = [pc EXCEPT ![c] = "rejected"]
  /\ fault' = [fault EXCEPT ![c] = "evaluate"]
  /\ evaluateOutcome' =
       [evaluateOutcome EXCEPT ![c][orderedApplicablePractices[c][idx[c]]] = "threw"]
  /\ settled' = Append(settled, c)
  /\ UNCHANGED <<orderedApplicablePractices, practicesOff, idx,
                 practicesWithContext, evaluateCalls>>
  /\ UNCHANGED <<contextVars, catalogVars, practiceVars, scanVars>>

\* Lines 188-191: evaluate throws.
EvaluateThrows(c) ==
  /\ pc[c] = "evaluate"
  /\ EvaluateSettles(c, "threw")

\* ------------------------------------------------------------------------
\* Scanner.detectPractices, Scanner.report, Scanner.scan
\* ------------------------------------------------------------------------

\* As Flatten, but the lists come in the order in which the pipelines settled.
RECURSIVE Flatten_AsSettled(_, _)
Flatten_AsSettled(lists, c) ==
  IF c > Len(settled) THEN <<>>
  ELSE lists[settled[c]] \o Flatten_AsSettled(lists, c + 1)

\* Line 134: _.flatten of the per-component lists, in the order of the
\* components.
RECURSIVE Flatten(_, _)
Flatten(lists, c) ==
  IF c > Len(lists) THEN <<>> ELSE lists[c] \o Flatten(lists, c + 1)

\* Lines 147-148: config.impact of the practice of a record, read from the
\* config provider of the record's component.
overridenImpact(p) == impactOverride[p.componentContext][p.practice]

\* As report, but the override of the impact is not applied.
report_DeclaredImpact(practicesWithCtx) ==
  [k \in 1..Len(practicesWithCtx) |->
     [component |-> practicesWithCtx[k].componentContext,
      practice |-> practicesWithCtx[k].practice,
      evaluation |-> practicesWithCtx[k].evaluation,
      impact |-> impact[practicesWithCtx[k].practice],
      isOn |-> practicesWithCtx[k].isOn]]

\* Lines 143-158: the list report hands to reporter.report, one entry per
\* element of practicesWithContext.  Line 154: the overridden impact when it
\* is truthy, else the impact of the metadata.
report(practicesWithCtx) ==
  [k \in 1..Len(practicesWithCtx) |->
     [component |-> practicesWithCtx[k].componentContext,
      practice |-> practicesWithCtx[k].practice,
      evaluation |-> practicesWithCtx[k].evaluation,
      impact |-> IF overridenImpact(practicesWithCtx[k]) # undefined
                 THEN overridenImpact(practicesWithCtx[k])
                 ELSE impact[practicesWithCtx[k].practice],
      isOn |-> practicesWithCtx[k].isOn]]

\* As Report, but scan goes on as soon as one pipeline has returned.
Report_AnyReturned ==
  /\ scanPc = "detectPractices"
  /\ \E c \in projectComponents : pc[c] = "returned"
  /\ reported' = report(Flatten(practicesWithContext, 1))
  /\ reportCalls' = reportCalls + 1
  /\ scanPc' = "reported"
  /\ UNCHANGED <<contextVars, catalogVars, pipelineVars, practiceVars>>

\* Lines 133, 65-66: Promise.all resolves once every pipeline has returned;
\* scan goes on to report.
Report ==
  /\ scanPc = "detectPractices"
  /\ \A c \in projectComponents : pc[c] = "returned"
  /\ reported' = report(Flatten(practicesWithContext, 1))
  /\ reportCalls' = reportCalls + 1
  /\ scanPc' = "reported"
  /\ UNCHANGED <<contextVars, catalogVars, pipelineVars, practiceVars>>

\* Lines 133, 65: Promise.all rejects as soon as one pipeline has rejected;
\* the rejection leaves detectPractices and scan, and report is not reached.
ScanRejects ==
  /\ scanPc = "detectPractices"
  /\ \E c \in projectComponents : pc[c] = "rejected"
  /\ scanPc' = "rejected"
  /\ UNCHANGED <<contextVars, catalogVars, pipelineVars, practiceVars, reported, reportCalls>>

\* ------------------------------------------------------------------------
\* JsGitignoreCorrectlySetPractice.evaluate
\* ------------------------------------------------------------------------

\* The characters of a .gitignore file: line feed, carriage return (the one
\* white space character besides line feed), the comment sign, and one
\* character for each name the practice looks for.
LF == "LF"
CR == "CR"
Characters ==
  {LF, CR, "#", "package-lock.json", "yarn.lock", "node_modules", "coverage",
   ".log"}

\* The strings of at most k characters.
RECURSIVE Strings(_)
Strings(k) ==
  IF k = 0 THEN {<<>>}
  ELSE Strings(k - 1) \cup
       {Append(s, ch) : s \in {t \in Strings(k - 1) : Len(t) = k - 1}, ch \in Characters}

\* A .gitignore that cannot be read.
Unreadable == [readable |-> FALSE, content |-> <<>>]

\* Line 28, split(/\r?\n/): the string is cut at every line feed, and a
\* carriage return right before the line feed goes with it.
RECURSIVE split(_, _, _)
split(s, i, line) ==
  IF i > Len(s) THEN <<line>>
  ELSE IF s[i] = LF
       THEN <<IF line # <<>> /\ line[Len(line)] = CR
              THEN SubSeq(line, 1, Len(line) - 1) ELSE line>>
            \o split(s, i + 1, <<>>)
       ELSE split(s, i + 1, Append(line, s[i]))

\* Line 29, String.prototype.trim: white space is removed from both ends.
RECURSIVE trim(_)
trim(value) ==
  IF value = <<>> THEN value
  ELSE IF Head(value) = CR THEN trim(Tail(value))
  ELSE IF value[Len(value)] = CR THEN trim(SubSeq(value, 1, Len(value) - 1))
  ELSE value

\* Line 29, content.startsWith('#').
startsWith(value, ch) == value # <<>> /\ Head(value) = ch

\* Lines 25-30: the lines of the file that are not blank and do not start
\* with the comment sign.
parseGitignore(gitignoreFile) ==
  SelectSeq(split(gitignoreFile, 1, <<>>),
            LAMBDA content : trim(content) # <<>> /\ ~startsWith(content, "#"))

\* Lines 35-41, parsedGitignore.find(value => regex.test(value)) taken as a
\* condition: some line holds the name, and a line that was kept is not empty.
find(parsedGitignore, name) ==
  \E k \in 1..Len(parsedGitignore) :
    /\ \E i \in 1..Len(parsedGitignore[k]) : parsedGitignore[k][i] = name
    /\ parsedGitignore[k] # <<>>

\* As exactlyOneLockfile, but one lockfile at least.
exactlyOneLockfile_AtLeastOne(packageJsonRegex, yarnLockRegex) ==
  packageJsonRegex \/ yarnLockRegex

\* Line 43.
exactlyOneLockfile(packageJsonRegex, yarnLockRegex) ==
  (packageJsonRegex /\ ~yarnLockRegex) \/ (~packageJsonRegex /\ yarnLockRegex)

\* Lines 32-49: what evaluate returns on the content readFile resolved with.
evaluateContent(content) ==
  LET parsedGitignore == parseGitignore(content)
      packageJsonRegex == find(parsedGitignore, "package-lock.json")
      yarnLockRegex == find(parsedGitignore, "yarn.lock")
      nodeModulesRegex == find(parsedGitignore, "node_modules")
      coverageRegex == find(parsedGitignore, "coverage")
      errorLogRegex == find(parsedGitignore, ".log")
  IN IF /\ exactlyOneLockfile(packageJsonRegex, yarnLockRegex)
        /\ nodeModulesRegex /\ errorLogRegex /\ coverageRegex
     THEN practicing
     ELSE notPracticing

\* As Evaluate, without the test of line 21.
Evaluate_NoGuard ==
  /\ evaluatePc = "idle"
  /\ evaluatePc' = "readFile"
  /\ readFileCalls' = readFileCalls + 1
  /\ UNCHANGED <<fileInspector, gitignore, settledWith>>
  /\ UNCHANGED <<catalogVars, pipelineVars, practiceVars, scanVars>>

\* Lines 20-31: evaluate is called; without a file inspector it returns
\* unknown, with one it calls readFile('.gitignore') and awaits it.
Evaluate ==
  /\ evaluatePc = "idle"
  /\ IF ~fileInspector
     THEN /\ evaluatePc' = "done"
          /\ settledWith' = unknown
          /\ readFileCalls' = readFileCalls
     ELSE /\ evaluatePc' = "readFile"
          /\ settledWith' = settledWith
          /\ readFileCalls' = readFileCalls + 1
  /\ UNCHANGED <<fileInspector, gitignore>>
  /\ UNCHANGED <<catalogVars, pipelineVars, practiceVars, scanVars>>

\* Lines 31-49: readFile settles; when it rejects, so does evaluate, and when
\* it resolves, evaluate returns what the content amounts to.
ReadFile ==
  /\ evaluatePc = "readFile"
  /\ evaluatePc' = "done"
  /\ settledWith' = IF gitignore.readable THEN evaluateContent(gitignore.content)
                  ELSE "threw"
  /\ UNCHANGED <<fileInspector, gitignore, readFileCalls>>
  /\ UNCHANGED <<catalogVars, pipelineVars, practiceVars, scanVars>>

\* evaluate has not been called, on the given practice context and file.
Idle(hasFileInspector, file) ==
  /\ fileInspector = hasFileInspector
  /\ gitignore = file
  /\ evaluatePc = "idle"
  /\ settledWith = "none"
  /\ readFileCalls = 0

\* The runs of the scanner leave the practice alone.
NotEvaluating == Idle(FALSE, Unreadable)

\* ------------------------------------------------------------------------
\* Specification
\* ------------------------------------------------------------------------

\* The state in which detectPractices has started the pipelines of components
\* 1..m over the catalog 1..n, configured by the settings S.
Configured(n, m, S) ==
  /\ practices = 1..n
  /\ projectComponents = 1..m
  /\ dependsOn =
       [p \in 1..n |->
          [practicing |->
             {q \in 1..(n + 1) : Has(S, "dependsOn", 0, p, q, practicing)},
           notPracticing |->
             {q \in 1..(n + 1) : Has(S, "dependsOn", 0, p, q, notPracticing)}]]
  /\ reportOnlyOnce =
       [p \in 1..n |-> Has(S, "reportOnlyOnce", 0, p, 0, unknown)]
  /\ impact = [p \in 1..n |-> ImpactIn(S, "impact", 0, p, DefaultImpact)]
  /\ impactOverride =
       [c \in 1..m |-> [p \in 1..n |-> ImpactIn(S, "impactOverride", c, p, undefined)]]
  /\ isApplicable =
       [c \in 1..m |-> [p \in 1..n |->
          IF Has(S, "throws", c, p, 0, unknown) THEN "throws"
          ELSE IF Has(S, "notApplicable", c, p, 0, unknown) THEN "false"
          ELSE "true"]]
  /\ enabled =
       [c \in 1..m |-> [p \in 1..n |-> ~Has(S, "off", c, p, 0, unknown)]]
  /\ initThrows =
       [c \in 1..m |-> Has(S, "initThrows", c, 0, 0, unknown)]
  /\ pc = [c \in 1..m |-> "init"]
  /\ fault = [c \in 1..m |-> "none"]
  /\ orderedApplicablePractices = [c \in 1..m |-> <<>>]
  /\ practicesOff = [c \in 1..m |-> <<>>]
  /\ idx = [c \in 1..m |-> 0]
  /\ practicesWithContext = [c \in 1..m |-> <<>>]
  /\ evaluateCalls = [c \in 1..m |-> [p \in 1..n |-> 0]]
  /\ evaluateOutcome = [c \in 1..m |-> [p \in 1..n |-> "none"]]
  /\ settled = <<>>
  /\ data = [p \in 1..n |-> <<>>]
  /\ scanPc = "detectPractices"
  /\ reported = <<>>
  /\ reportCalls = 0

Init ==
  \E n \in 1..NumPractices, m \in 1..NumComponents :
    /\ n * m <= MaxPairs
    /\ \E S \in SettingsUpTo(Settings(n, m), MaxSettings) : Configured(n, m, S) /\ NotEvaluating

Next ==
  \/ \E c \in projectComponents : ConfigInit(c)
  \/ \E c \in projectComponents : FilterPractices(c)
  \/ \E c \in projectComponents : EvaluateReturns(c)
  \/ \E c \in projectComponents : EvaluateThrows(c)
  \/ Report
  \/ ScanRejects

Spec == Init /\ [][Next]_vars

\* A dependency on the id n + 1, which no practice of the catalog 1..n has.
MissingTargets(n) ==
  {[kind |-> "dependsOn", c |-> 0, p |-> p, q |-> n + 1, res |-> r] :
     p \in 1..n, r \in {practicing, notPracticing}}

\* The runs in which some practice names an id that is not in the catalog.
InitMissing ==
  \E n \in 1..NumPractices, m \in 1..NumComponents :
    /\ n * m <= MaxPairs
    /\ \E missing \in MissingTargets(n) :
         \E S \in SettingsUpTo(Settings(n, m), MaxSettings - 1) :
           Configured(n, m, S \cup {missing}) /\ NotEvaluating

SpecMissing == InitMissing /\ [][Next]_vars

\* The runs of at most MaxPairs - 2 (practice, component) pairs in which some
\* impact is declared or overridden, and at most one other setting differs from
\* the plain run.
InitImpact ==
  \E n \in 1..NumPractices, m \in 1..NumComponents :
    /\ n * m + 2 <= MaxPairs
    /\ \E I \in SettingsUpTo(ImpactSettings(n, m), MaxSettings - 1) \ {{}} :
         \E S \in SettingsUpTo(Settings(n, m), 1) :
           Configured(n, m, S \cup I) /\ NotEvaluating

SpecImpact == InitImpact /\ [][Next]_vars

\* The practice is evaluated once on its own, as its tests do, on any practice
\* context and any .gitignore of at most MaxChars characters.
InitGitignore ==
  /\ Configured(1, 1, {})
  /\ \E hasFileInspector \in BOOLEAN :
       \E file \in {Unreadable} \cup
                   {[readable |-> TRUE, content |-> s] : s \in Strings(MaxChars)} :
         Idle(hasFileInspector, file)

NextGitignore == Evaluate \/ ReadFile

SpecGitignore == InitGitignore /\ [][NextGitignore]_vars

\* ------------------------------------------------------------------------
\* Vocabulary of the properties
\* ------------------------------------------------------------------------

\* The positions of the records of practice p in a result list.
RecordsOf(records, p) == {i \in 1..Len(records) : records[i].practice = p}

HasRecord(records, p) == RecordsOf(records, p) # {}

\* Every dependency constraint of p is matched by a record of the list.
Matched(p, records) ==
  /\ \A q \in dependsOn[p].practicing :
       \E i \in RecordsOf(records, q) : records[i].evaluation = practicing
  /\ \A q \in dependsOn[p].notPracticing :
       \E i \in RecordsOf(records, q) : records[i].evaluation = notPracticing

\* The first k records of a list.
Prefix(records, k) == SubSeq(records, 1, k)

\* The records of a list that stem from an evaluation.
OnRecords(records) == SelectSeq(records, LAMBDA r : r.isOn)

Applicable(c, p) == isApplicable[c][p] = "true"
ToggledOff(c, p) == Applicable(c, p) /\ ~enabled[c][p]
Returned(c) == pc[c] = "returned"

\* ------------------------------------------------------------------------
\* C1  Fulfillment gating
\* ------------------------------------------------------------------------

\* C1, as stated: in the result list detectPracticesForComponent returns for
\* C, a practice P one of whose dependency constraints is not matched by a
\* record of the list has no record, also when P is toggled off.
C1_GatingAlsoWhenToggledOff ==
  \A c \in projectComponents : Returned(c) =>
    \A p \in practices :
      ~Matched(p, practicesWithContext[c]) => ~HasRecord(practicesWithContext[c], p)

\* C1, amended: in the result list detectPracticesForComponent returns for C,
\* a practice P that is not toggled off for C and one of whose dependency
\* constraints is not matched by a record of the list has no record.
C1_FulfillmentGating ==
  \A c \in projectComponents : Returned(c) =>
    \A p \in practices :
      (~ToggledOff(c, p) /\ ~Matched(p, practicesWithContext[c]))
        => ~HasRecord(practicesWithContext[c], p)

\* Scenario A: P requires Q practicing, Q was evaluated to something else,
\* and the returned list has Q's record and none for P.
C1_Witness ==
  \E c \in projectComponents : \E p, q \in practices :
    /\ Returned(c) /\ Applicable(c, p) /\ enabled[c][p]
    /\ q \in dependsOn[p].practicing
    /\ evaluateOutcome[c][q] = notPracticing
    /\ HasRecord(practicesWithContext[c], q)
    /\ ~HasRecord(practicesWithContext[c], p)

\* ------------------------------------------------------------------------
\* C2  Dependency ordering
\* ------------------------------------------------------------------------

\* C2: in every result list, when P names another practice Q in dependsOn and
\* both have a record, Q's record comes strictly before P's, whether P and Q
\* are enabled or toggled off.
C2_DependencyOrdering ==
  \A c \in projectComponents : \A p \in practices :
    \A q \in DependencyIds(p) :
      \A i \in RecordsOf(practicesWithContext[c], p) :
        \A j \in RecordsOf(practicesWithContext[c], q) : j < i

\* ------------------------------------------------------------------------
\* C3  Single evaluation
\* ------------------------------------------------------------------------

\* C3: every result list, and the list handed to the reporter, has at most
\* one record per practice and component; evaluate is invoked at most once per
\* practice and component; so no practice has both an evaluated record and a
\* toggled-off record for one component.
C3_SingleEvaluation ==
  /\ \A c \in projectComponents : \A p \in practices :
       /\ Cardinality(RecordsOf(practicesWithContext[c], p)) <= 1
       /\ evaluateCalls[c][p] <= 1
  /\ \A i, j \in 1..Len(reported) :
       (reported[i].component = reported[j].component
          /\ reported[i].practice = reported[j].practice) => i = j

\* A run was reported in which one component has an evaluated record and a
\* toggled-off record, of different practices.
C3_Witness ==
  /\ scanPc = "reported"
  /\ \E c \in projectComponents :
       \E i, j \in 1..Len(practicesWithContext[c]) :
         practicesWithContext[c][i].isOn /\ ~practicesWithContext[c][j].isOn

\* ------------------------------------------------------------------------
\* C4  Toggle precedence
\* ------------------------------------------------------------------------

\* C4: a practice P that is applicable to C and disabled by the override
\* store is never evaluated for C, and the result list returned for C has
\* exactly one record for P, with evaluation unknown and isOn false,
\* whatever P depends on.
C4_TogglePrecedence ==
  \A c \in projectComponents : \A p \in practices :
    ToggledOff(c, p) =>
      /\ evaluateCalls[c][p] = 0
      /\ Returned(c) =>
           /\ Cardinality(RecordsOf(practicesWithContext[c], p)) = 1
           /\ \A i \in RecordsOf(practicesWithContext[c], p) :
                practicesWithContext[c][i] =
                  [practice |-> p, componentContext |-> c,
                   evaluation |-> unknown, isOn |-> FALSE]

\* A returned list holds the record of a toggled-off practice whose
\* dependency constraints are not matched.
C4_Witness ==
  \E c \in projectComponents : \E p \in practices :
    /\ Returned(c) /\ ToggledOff(c, p)
    /\ ~Matched(p, practicesWithContext[c])
    /\ HasRecord(practicesWithContext[c], p)

\* ------------------------------------------------------------------------
\* C5  Fault isolation
\* ------------------------------------------------------------------------

\* The value the record of an evaluated practice must carry.
RecordedValue(outcome) == IF outcome = "threw" THEN unknown ELSE outcome

\* C5: when P.evaluate has thrown for C, the pipeline of C has not rejected;
\* once the throw is handled P has exactly one record, unknown and isOn; and in
\* the returned list every enabled applicable practice whose constraints are
\* matched by evaluated records has its record, and every evaluated record
\* carries what its own evaluate did.
C5_FaultIsolation ==
  \A c \in projectComponents : \A p \in practices :
    evaluateOutcome[c][p] = "threw" =>
      /\ pc[c] # "rejected"
      /\ Cardinality(RecordsOf(practicesWithContext[c], p)) = 1
      /\ \A i \in RecordsOf(practicesWithContext[c], p) :
           practicesWithContext[c][i] =
             [practice |-> p, componentContext |-> c,
              evaluation |-> unknown, isOn |-> TRUE]
      /\ Returned(c) =>
           \A q \in practices :
             /\ (Applicable(c, q) /\ enabled[c][q]
                   /\ Matched(q, OnRecords(practicesWithContext[c])))
                  => HasRecord(practicesWithContext[c], q)
             /\ \A i \in RecordsOf(practicesWithContext[c], q) :
                  practicesWithContext[c][i].isOn =>
                    practicesWithContext[c][i].evaluation =
                      RecordedValue(evaluateOutcome[c][q])

\* P threw, a practice that requires P practicing has no record, and a later
\* practice that does not depend on P was evaluated and returned a result.
C5_Witness ==
  \E c \in projectComponents : \E p, q, r \in practices :
    /\ Returned(c)
    /\ evaluateOutcome[c][p] = "threw"
    /\ p \in dependsOn[q].practicing
    /\ ~HasRecord(practicesWithContext[c], q)
    /\ p < r /\ p \notin DependencyIds(r)
    /\ evaluateOutcome[c][r] \in {practicing, notPracticing}
    /\ HasRecord(practicesWithContext[c], r)
\* ------------------------------------------------------------------------
\* C6  A cycle fault is per component
\* ------------------------------------------------------------------------

\* The record of position i of the list of component c, as the reporter
\* receives it.
ReportedAs(c, i) ==
  [component |-> c, practice |-> practicesWithContext[c][i].practice,
   evaluation |-> practicesWithContext[c][i].evaluation,
   isOn |-> practicesWithContext[c][i].isOn]

InReported(c, i) ==
  \E k \in 1..Len(reported) :
    /\ reported[k].component = ReportedAs(c, i).component
    /\ reported[k].practice = ReportedAs(c, i).practice
    /\ reported[k].evaluation = ReportedAs(c, i).evaluation
    /\ reported[k].isOn = ReportedAs(c, i).isOn

\* Nothing fails in the pipeline of c: its config init and its isApplicable
\* calls succeed, and its enabled applicable practices have no cycle.
NothingFails(c) ==
  /\ ~initThrows[c]
  /\ ~filterPractices(c).threw
  /\ ~sortPractices(filterPractices(c).customApplicablePractices).threw

\* C6: when ordering the practices of component C1 fails on a dependency
\* cycle, C1 has no records, and for every other component C2 in which nothing
\* fails: once scan has left detectPractices, C2 has returned its list and
\* the list was handed to the reporter.
C6_CycleFaultIsPerComponent ==
  \A c1 \in projectComponents : fault[c1] = "cycle" =>
    /\ practicesWithContext[c1] = <<>>
    /\ \A c2 \in projectComponents \ {c1} :
         NothingFails(c2)
           => (scanPc # "detectPractices" =>
                 /\ Returned(c2)
                 /\ scanPc = "reported"
                 /\ \A i \in 1..Len(practicesWithContext[c2]) : InReported(c2, i))

\* ------------------------------------------------------------------------
\* C7  reportOnlyOnce de-duplication
\* ------------------------------------------------------------------------

\* The positions of the records of practice p in the reported list.
ReportedOf(p) == {k \in 1..Len(reported) : reported[k].practice = p}

\* C7: the list handed to reporter.report has at most one record of every
\* reportOnlyOnce practice, the one of the first component that produced a
\* record for it, and has every record of the other practices.
C7_ReportOnlyOnce ==
  scanPc = "reported" =>
    \A p \in practices :
      IF reportOnlyOnce[p]
      THEN /\ Cardinality(ReportedOf(p)) <= 1
           /\ \A k \in ReportedOf(p) :
                \A c \in projectComponents :
                  HasRecord(practicesWithContext[c], p) => reported[k].component <= c
      ELSE \A c \in projectComponents :
             \A i \in RecordsOf(practicesWithContext[c], p) : InReported(c, i)

\* ------------------------------------------------------------------------
\* C8  Run completion
\* ------------------------------------------------------------------------

\* C8: whatever fails in a pipeline, scan is not left without reporting, and
\* when it has reported, reporter.report was invoked exactly once, after every
\* component returned its result list.
C8_RunCompletes ==
  /\ scanPc # "rejected"
  /\ scanPc = "reported" =>
       /\ reportCalls = 1
       /\ \A c \in projectComponents : Returned(c)

\* ------------------------------------------------------------------------
\* C9  Evaluation only when fulfilled
\* ------------------------------------------------------------------------

\* C9: while P.evaluate is in flight for C, every dependency constraint of P
\* is matched by a record already in C's list; every evaluated record of a
\* list has its constraints matched by evaluated records before it; and no
\* record of a practice that an evaluated practice depends on is unknown.
C9_EvaluatedOnlyWhenFulfilled ==
  \A c \in projectComponents :
    /\ pc[c] = "evaluate" =>
         Matched(orderedApplicablePractices[c][idx[c]], practicesWithContext[c])
    /\ \A k \in 1..Len(practicesWithContext[c]) :
         practicesWithContext[c][k].isOn =>
           /\ Matched(practicesWithContext[c][k].practice,
                      OnRecords(Prefix(practicesWithContext[c], k - 1)))
           /\ \A d \in DependencyIds(practicesWithContext[c][k].practice) :
                \A j \in RecordsOf(practicesWithContext[c], d) :
                  practicesWithContext[c][j].evaluation # unknown

\* evaluate is in flight for a practice with a constraint of each polarity.
C9_Witness ==
  \E c \in projectComponents :
    /\ pc[c] = "evaluate"
    /\ dependsOn[orderedApplicablePractices[c][idx[c]]].practicing # {}
    /\ dependsOn[orderedApplicablePractices[c][idx[c]]].notPracticing # {}

\* ------------------------------------------------------------------------
\* C10  No spurious skip
\* ------------------------------------------------------------------------

\* C10: in a returned list, a practice P that is applicable, not toggled off
\* and has every dependency constraint matched by an evaluated record was
\* evaluated exactly once and has exactly one record, with isOn true and the
\* value its evaluate returned (unknown when it threw).
C10_NoSpuriousSkip ==
  \A c \in projectComponents : \A p \in practices :
    (/\ Returned(c) /\ Applicable(c, p) /\ enabled[c][p]
     /\ Matched(p, OnRecords(practicesWithContext[c])))
      => /\ evaluateCalls[c][p] = 1
         /\ evaluateOutcome[c][p] # "none"
         /\ Cardinality(RecordsOf(practicesWithContext[c], p)) = 1
         /\ \A i \in RecordsOf(practicesWithContext[c], p) :
              practicesWithContext[c][i] =
                [practice |-> p,
                 componentContext |-> c,
                 evaluation |-> RecordedValue(evaluateOutcome[c][p]),
                 isOn |-> TRUE]

\* Scenario B: P requires Q practicing, Q was evaluated practicing, and the
\* returned list has P's record with the notPracticing its evaluate returned.
C10_Witness ==
  \E c \in projectComponents : \E p, q \in practices :
    /\ Returned(c)
    /\ q \in dependsOn[p].practicing
    /\ evaluateOutcome[c][q] = practicing
    /\ evaluateOutcome[c][p] = notPracticing
    /\ \E i \in RecordsOf(practicesWithContext[c], p) :
         practicesWithContext[c][i].evaluation = notPracticing

\* ------------------------------------------------------------------------
\* C11  Missing dependency target
\* ------------------------------------------------------------------------

\* The enabled applicable practices of c.
CustomApplicable(c) == {p \in practices : Applicable(c, p) /\ enabled[c][p]}

\* p names an id that is not in the catalog or not applicable to c.
MissingTarget(c, p) ==
  \E d \in DependencyIds(p) : d \notin practices \/ isApplicable[c][d] = "false"

\* The resolved order of the enabled applicable practices of c other than p.
OrderWithout(c, p) == sortPractices(InRegistrationOrder(CustomApplicable(c) \ {p}))

\* The records the first loop produces over the given order when every
\* evaluate does what outcome says.
RECURSIVE Replay(_, _, _, _, _)
Replay(c, ordered, i, records, outcome) ==
  IF i > Len(ordered) THEN records
  ELSE IF isFulfilled(ordered[i], records)
       THEN Replay(c, ordered, i + 1,
                   Append(records,
                          [practice |-> ordered[i], componentContext |-> c,
                           evaluation |-> RecordedValue(outcome[ordered[i]]),
                           isOn |-> TRUE]),
                   outcome)
       ELSE Replay(c, ordered, i + 1, records, outcome)

\* The practices of a sequence other than p, in the order of the sequence.
Without(ordered, p) == SelectSeq(ordered, LAMBDA q : q # p)

\* P is an enabled applicable practice of c with a missing dependency target,
\* and the pipeline of c has got past its config init and its filter.
MissingTargetCase(c, p) ==
  /\ Applicable(c, p) /\ enabled[c][p] /\ MissingTarget(c, p)
  /\ pc[c] \notin {"init", "filter"}
  /\ fault[c] \notin {"init", "isApplicable"}

C12_OverrideApplication ==
  scanPc = "reported" =>
    /\ Len(reported) = Len(Flatten(practicesWithContext, 1))
    /\ \A k \in 1..Len(reported) :
         LET r == Flatten(practicesWithContext, 1)[k]
         IN /\ reported[k].component = r.componentContext
            /\ reported[k].practice = r.practice
            /\ reported[k].evaluation = r.evaluation
            /\ reported[k].isOn = r.isOn
            /\ reported[k].impact =
                 IF impactOverride[r.componentContext][r.practice] \in Range(PracticeImpact)
                 THEN impactOverride[r.componentContext][r.practice]
                 ELSE impact[r.practice]

\* A reported list with a record whose impact is an override that differs
\* from the declared impact, and a record that reports a declared impact
\* other than the default.
C12_Witness ==
  /\ scanPc = "reported"
  /\ \E k \in 1..Len(reported) :
       /\ impactOverride[reported[k].component][reported[k].practice] # undefined
       /\ reported[k].impact # impact[reported[k].practice]
  /\ \E k \in 1..Len(reported) :
       /\ impactOverride[reported[k].component][reported[k].practice] = undefined
       /\ reported[k].impact # DefaultImpact

\* ------------------------------------------------------------------------
\* C13  Cross-component independence
\* ------------------------------------------------------------------------

\* The list the pipeline of c returns when it runs alone and every evaluate
\* does for c what it did in this run.
AloneList(c) ==
  AddPracticesOff(c, Replay(c, orderedApplicablePractices[c], 1, <<>>,
                            evaluateOutcome[c]),
                  practicesOff[c])

\* C13: the list a component returns is the list its pipeline produces alone,
\* each of its records belongs to it, and what a practice instance keeps from
\* an evaluate (practice.data.details) is never seen through a record of a
\* component other than the one whose evaluation wrote it.
C13_CrossComponentIndependence ==
  \A c \in projectComponents :
    /\ Returned(c) => practicesWithContext[c] = AloneList(c)
    /\ \A i \in 1..Len(practicesWithContext[c]) :
         /\ practicesWithContext[c][i].componentContext = c
         /\ data[practicesWithContext[c][i].practice] \in {<<>>, <<c>>}

\* ------------------------------------------------------------------------
\* C14  Join before reporting
\* ------------------------------------------------------------------------

\* A pipeline that has neither returned nor rejected.
Running(c) == pc[c] \in {"init", "filter", "evaluate"}

\* C14: a step that invokes reporter.report starts where no pipeline is
\* running, and once report has been invoked no step changes the result list
\* of any component.
C14_JoinBeforeReporting ==
  [][/\ reportCalls' # reportCalls =>
          \A c \in projectComponents : ~Running(c)
     /\ reportCalls > 0 => practicesWithContext' = practicesWithContext]_vars

\* Report has been invoked over two components that both produced records,
\* one of them by an evaluate.
C14_Witness ==
  /\ reportCalls = 1
  /\ Cardinality(projectComponents) >= 2
  /\ \A c \in projectComponents : Len(practicesWithContext[c]) > 0
  /\ \E c \in projectComponents, p \in practices : evaluateCalls[c][p] > 0

\* ------------------------------------------------------------------------
\* C15  Sequential evaluation within a component
\* ------------------------------------------------------------------------

\* The practices whose evaluate has been invoked for c and has not settled.
InFlight(c) ==
  {p \in practices :
     evaluateCalls[c][p] > (IF evaluateOutcome[c][p] = "none" THEN 0 ELSE 1)}

\* C15: for each component at most one evaluate is in flight, and whenever the
\* evaluate of a practice has been invoked, the evaluate of every practice
\* invoked earlier in the order has settled and its record is in the list.
C15_SequentialEvaluation ==
  \A c \in projectComponents :
    /\ Cardinality(InFlight(c)) <= 1
    /\ \A j \in 1..Len(orderedApplicablePractices[c]) :
         evaluateCalls[c][orderedApplicablePractices[c][j]] > 0 =>
           \A k \in 1..(j - 1) :
             evaluateCalls[c][orderedApplicablePractices[c][k]] > 0 =>
               /\ orderedApplicablePractices[c][k] \notin InFlight(c)
               /\ HasRecord(practicesWithContext[c], orderedApplicablePractices[c][k])

\* The evaluate of the second practice evaluated for a component is in flight:
\* the first one has settled and has its record, a later one is not invoked.
C15_Witness ==
  \E c \in projectComponents :
    /\ pc[c] = "evaluate"
    /\ InFlight(c) = {orderedApplicablePractices[c][idx[c]]}
    /\ \E k \in 1..(idx[c] - 1) :
         /\ evaluateOutcome[c][orderedApplicablePractices[c][k]] # "none"
         /\ HasRecord(practicesWithContext[c], orderedApplicablePractices[c][k])
    /\ \E k \in (idx[c] + 1)..Len(orderedApplicablePractices[c]) :
         evaluateCalls[c][orderedApplicablePractices[c][k]] = 0

\* ------------------------------------------------------------------------
\* C16  Applicability invariant
\* ------------------------------------------------------------------------

\* C16: every record of every result list, on or off, is of a practice whose
\* isApplicable returned true for the component; a practice that is not
\* applicable to the component has no record in its list, turned off or not.
C16_ApplicabilityInvariant ==
  \A c \in projectComponents :
    /\ \A i \in 1..Len(practicesWithContext[c]) :
         isApplicable[c][practicesWithContext[c][i].practice] = "true"
    /\ \A p \in practices :
         isApplicable[c][p] # "true" => ~HasRecord(practicesWithContext[c], p)

\* A returned list with a record of a turned-off practice, of a component for
\* which another practice is not applicable and turned off as well.
C16_Witness ==
  \E c \in projectComponents :
    /\ pc[c] = "returned"
    /\ \E i \in 1..Len(practicesWithContext[c]) : ~practicesWithContext[c][i].isOn
    /\ \E p \in practices :
         /\ isApplicable[c][p] = "false"
         /\ ~enabled[c][p]
         /\ ~HasRecord(practicesWithContext[c], p)

\* ------------------------------------------------------------------------
\* C17  Gitignore practice without a file inspector
\* ------------------------------------------------------------------------

\* C17: on a practice context without root.fileInspector, evaluate reads no
\* file and does not throw, and what it returns is unknown.
C17_UnknownWithoutFileInspector ==
  ~fileInspector =>
    /\ readFileCalls = 0
    /\ settledWith \in {"none", unknown}
    /\ evaluatePc \in {"idle", "done"}
    /\ evaluatePc = "done" => settledWith = unknown

\* evaluate has returned on a context without file inspector whose .gitignore
\* is one it returns practicing on when there is a file inspector.
C17_Witness ==
  /\ ~fileInspector
  /\ evaluatePc = "done"
  /\ gitignore.readable
  /\ evaluateContent(gitignore.content) = practicing

\* ------------------------------------------------------------------------
\* C18  What JsGitignoreCorrectlySetPractice.evaluate returns
\* ------------------------------------------------------------------------

\* The lines of the .gitignore that are not blank and are no comments, a
\* comment being a line that begins with the comment sign.
PatternLines ==
  {l \in Range(split(gitignore.content, 1, <<>>)) :
     /\ \E i \in 1..Len(l) : l[i] # CR
     /\ l[1] # "#"}

\* Some pattern line matches the name.
Matches(name) == \E l \in PatternLines : name \in Range(l)

\* C18: with a file inspector and a readable .gitignore, evaluate returns
\* practicing when the pattern lines match exactly one of package-lock.json
\* and yarn.lock and match node_modules, coverage and .log; it returns
\* notPracticing for every other combination of the five matches.
C18_PracticingExactlyWhen ==
  (fileInspector /\ gitignore.readable /\ evaluatePc = "done") =>
    settledWith =
      IF /\ Cardinality({name \in {"package-lock.json", "yarn.lock"} : Matches(name)}) = 1
         /\ \A name \in {"node_modules", "coverage", ".log"} : Matches(name)
      THEN practicing
      ELSE notPracticing

\* evaluate has returned practicing on a .gitignore of more than one line.
C18_Witness ==
  /\ fileInspector /\ gitignore.readable /\ evaluatePc = "done"
  /\ settledWith = practicing
  /\ \E i \in 1..Len(gitignore.content) : gitignore.content[i] = LF

\* ------------------------------------------------------------------------
\* C19  Deterministic aggregate order
\* ------------------------------------------------------------------------

\* The number of records of the components before c.
RECURSIVE RecordsBefore(_)
RecordsBefore(c) ==
  IF c = 1 THEN 0 ELSE RecordsBefore(c - 1) + Len(practicesWithContext[c - 1])

\* C19: the list handed to the reporter holds, for the components in their
\* inbound order, the records of each component's list in the order of that
\* list, and nothing else, whatever order the pipelines finished in.
C19_AggregateOrder ==
  scanPc = "reported" =>
    /\ Len(reported) = RecordsBefore(Cardinality(projectComponents) + 1)
    /\ \A c \in projectComponents :
         \A i \in 1..Len(practicesWithContext[c]) :
           /\ reported[RecordsBefore(c) + i].component = c
           /\ reported[RecordsBefore(c) + i].practice =
                practicesWithContext[c][i].practice
           /\ reported[RecordsBefore(c) + i].evaluation =
                practicesWithContext[c][i].evaluation
           /\ reported[RecordsBefore(c) + i].isOn = practicesWithContext[c][i].isOn

\* A reported run in which the pipeline of the second component finished
\* before the one of the first, and both returned several records.
C19_Witness ==
  /\ scanPc = "reported"
  /\ settled = <<2, 1>>
  /\ \A c \in projectComponents : Len(practicesWithContext[c]) >= 2

====
